---- MODULE Spec2Model ----
(***************************************************************************)
(* AI Study Buddy (src/main.py): the in-memory material store and the six  *)
(* HTTP handlers that read and write it.                                   *)
(*                                                                         *)
(* Short strings (filenames, model replies) are sequences of one-character *)
(* strings.  Extracted PDF text is kept run-length encoded, a sequence of   *)
(* [c |-> character, n |-> repetitions] blocks in canonical form, so that   *)
(* the 4000 / 3000 / 500 character slices of the handlers are taken with    *)
(* the program's own numbers.                                              *)
(***************************************************************************)
EXTENDS Integers, Sequences, FiniteSets, TLC

(***************************************************************************)
(* Bounds of the model.                                                    *)
(***************************************************************************)
\* number of upload handlers that may be suspended in `await file.read()`
MaxInFlight == 1
\* number of pieces of a generated file name
MaxSegments == 4

(***************************************************************************)
(* Program constants.                                                      *)
(***************************************************************************)
NotesBudget == 4000
QuizBudget == 4000
ChatBudget == 3000
PreviewLen == 500
DefaultNumQuestions == 5

(***************************************************************************)
(* Python str operations on character sequences.                           *)
(***************************************************************************)
Whitespace == {" ", "\n", "\t", "\r"}

startswith(s, prefix) ==
    /\ Len(s) >= Len(prefix)
    /\ SubSeq(s, 1, Len(prefix)) = prefix

endswith(s, suffix) ==
    /\ Len(s) >= Len(suffix)
    /\ SubSeq(s, Len(s) - Len(suffix) + 1, Len(s)) = suffix

\* str.replace(old, new): non-overlapping occurrences, scanned left to right
RECURSIVE replace(_, _, _)
replace(s, old, new) ==
    IF Len(s) < Len(old) THEN s
    ELSE IF SubSeq(s, 1, Len(old)) = old
         THEN new \o replace(SubSeq(s, Len(old) + 1, Len(s)), old, new)
         ELSE <<Head(s)>> \o replace(Tail(s), old, new)

RECURSIVE lstrip(_)
lstrip(s) ==
    IF s # <<>> /\ Head(s) \in Whitespace THEN lstrip(Tail(s)) ELSE s

RECURSIVE rstrip(_)
rstrip(s) ==
    IF s # <<>> /\ s[Len(s)] \in Whitespace
    THEN rstrip(SubSeq(s, 1, Len(s) - 1))
    ELSE s

strip(s) == rstrip(lstrip(s))

(***************************************************************************)
(* Run-length encoded text.                                                *)
(***************************************************************************)
Run(c, n) == <<[c |-> c, n |-> n]>>

\* a + b
RConcat(a, b) ==
    IF a = <<>> THEN b
    ELSE IF b = <<>> THEN a
    ELSE IF a[Len(a)].c = b[1].c
         THEN SubSeq(a, 1, Len(a) - 1)
              \o Run(b[1].c, a[Len(a)].n + b[1].n)
              \o Tail(b)
         ELSE a \o b

RECURSIVE RLen(_)
RLen(a) == IF a = <<>> THEN 0 ELSE a[1].n + RLen(Tail(a))

\* a[:k]
RECURSIVE RTake(_, _)
RTake(a, k) ==
    IF a = <<>> \/ k <= 0 THEN <<>>
    ELSE IF a[1].n >= k THEN Run(a[1].c, k)
         ELSE <<a[1]>> \o RTake(Tail(a), k - a[1].n)

\* a.strip() == ""
RIsBlank(a) == \A i \in 1..Len(a) : a[i].c \in Whitespace

(***************************************************************************)
(* Python values held in a record's notes / quiz fields and in response    *)
(* bodies: a tag and a payload.                                            *)
(***************************************************************************)
None == [t |-> "None", v |-> <<>>]
PyStr(s) == [t |-> "str", v |-> s]
PyInt(n) == [t |-> "int", v |-> <<n>>]
PyNaN == [t |-> "float", v |-> <<"nan">>]
PyList(xs) == [t |-> "list", v |-> xs]
\* {"raw_text": text}
RawText(text) == [t |-> "dict", v |-> <<"raw_text", PyStr(text)>>]

(***************************************************************************)
(* json.loads on the JSON subset the modelled replies are written in:      *)
(* null, NaN, unsigned integers and arrays, with JSON whitespace.  Any      *)
(* other character makes the scanner raise JSONDecodeError, as it does in   *)
(* the library for the characters used here.                               *)
(***************************************************************************)
JsonWhitespace == {" ", "\t", "\n", "\r"}
Digits == <<"0", "1", "2", "3", "4", "5", "6", "7", "8", "9">>
IsDigit(c) == \E i \in 1..10 : Digits[i] = c
DigitVal(c) == (CHOOSE i \in 1..10 : Digits[i] = c) - 1

RECURSIVE SkipWs(_)
SkipWs(s) ==
    IF s # <<>> /\ Head(s) \in JsonWhitespace THEN SkipWs(Tail(s)) ELSE s

JsonFail == [ok |-> FALSE, val |-> None, rest |-> <<>>]
JsonOk(val, rest) == [ok |-> TRUE, val |-> val, rest |-> rest]

\* the integer literal at the head of s: "0", or a run of digits not led by 0
RECURSIVE ScanInt(_, _)
ScanInt(s, acc) ==
    IF s # <<>> /\ IsDigit(Head(s))
    THEN ScanInt(Tail(s), 10 * acc + DigitVal(Head(s)))
    ELSE JsonOk(PyInt(acc), s)

RECURSIVE ScanValue(_)
RECURSIVE ScanArray(_, _)

\* scanner's value at the head of s (no leading whitespace)
ScanValue(s) ==
    IF startswith(s, <<"n", "u", "l", "l">>)
        THEN JsonOk(None, SubSeq(s, 5, Len(s)))
    ELSE IF startswith(s, <<"N", "a", "N">>)
        THEN JsonOk(PyNaN, SubSeq(s, 4, Len(s)))
    ELSE IF startswith(s, <<"0">>)
        THEN JsonOk(PyInt(0), Tail(s))
    ELSE IF s # <<>> /\ IsDigit(Head(s))
        THEN ScanInt(s, 0)
    ELSE IF startswith(s, <<"[">>)
        THEN LET r == SkipWs(Tail(s))
             IN  IF startswith(r, <<"]">>)
                 THEN JsonOk(PyList(<<>>), Tail(r))
                 ELSE ScanArray(r, <<>>)
    ELSE JsonFail

\* elements of an array after "[" or ",", up to and including "]"
ScanArray(s, acc) ==
    LET e == ScanValue(s)
    IN  IF ~e.ok THEN JsonFail
        ELSE LET r == SkipWs(e.rest)
             IN  IF startswith(r, <<"]">>)
                     THEN JsonOk(PyList(Append(acc, e.val)), Tail(r))
                 ELSE IF startswith(r, <<",">>)
                     THEN ScanArray(SkipWs(Tail(r)), Append(acc, e.val))
                 ELSE JsonFail

\* json.loads(s): ok = FALSE stands for JSONDecodeError
json_loads(s) ==
    LET e == ScanValue(SkipWs(s))
    IN  IF e.ok /\ SkipWs(e.rest) = <<>> THEN e ELSE JsonFail

\* json.dumps(v, allow_nan=False) of JSONResponse.render succeeds
RECURSIVE JsonCompliant(_)
JsonCompliant(v) ==
    IF v.t = "float" THEN FALSE
    ELSE IF v.t = "list" THEN \A i \in 1..Len(v.v) : JsonCompliant(v.v[i])
    ELSE TRUE

(***************************************************************************)
(* Inputs.                                                                 *)
(***************************************************************************)
\* the backtick character (U+0060)
Tick == "tick"

DotPdf == <<".", "p", "d", "f">>
Fence == <<Tick, Tick, Tick>>
FenceJson == Fence \o <<"j", "s", "o", "n">>

\* uploaded file names: a.pdf, .pdf, a.txt
UploadNames ==
    { <<"a">> \o DotPdf,
      DotPdf,
      <<"a", ".", "t", "x", "t">> }

\* file names for the derivation of the material id alone: up to MaxSegments
\* pieces, each one of "a", " ", "_", ".pdf"
Segments == { <<"a">>, <<" ">>, <<"_">>, DotPdf }

RECURSIVE NamesUpTo(_)
NamesUpTo(k) ==
    IF k = 0 THEN { <<>> }
    ELSE LET shorter == NamesUpTo(k - 1)
         IN  shorter \cup { n \o seg : n \in shorter, seg \in Segments }

GeneratedNames == NamesUpTo(MaxSegments)

\* per-page results of page.extract_text(), run-length encoded
ShortPage == Run("H", 1) \o Run("i", 1)
LongPage == Run("a", 3000) \o Run("b", 900) \o Run("c", 600)
BlankPage == Run(" ", 2)

Raised == [raised |-> TRUE, pages |-> <<>>]
Extracted(pages) == [raised |-> FALSE, pages |-> pages]

\* what PdfReader and extract_text make of the uploaded bytes
Extractions ==
    { Raised,
      Extracted(<<>>),
      Extracted(<<BlankPage>>),
      Extracted(<<ShortPage>>),
      Extracted(<<LongPage, BlankPage>>) }

\* outcome of model.generate_content(prompt) followed by response.text
ClientRaised == [raised |-> TRUE, text |-> <<>>]
Reply(text) == [raised |-> FALSE, text |-> text]

NotesReplies == { ClientRaised, Reply(<<"#", "A">>) }

QuizReplies ==
    { ClientRaised,
      Reply(<<"[", "1", "]">>),
      Reply(FenceJson \o <<"\n", "[", "1", "]", "\n">> \o Fence),
      Reply(Fence \o <<"\n", "[", "1", "]", "\n">> \o Fence),
      Reply(<<" ", "x", "\n">>),
      Reply(<<"n", "u", "l", "l">>),
      Reply(<<"N", "a", "N">>) }

ChatReplies == { ClientRaised, Reply(<<"o", "k">>) }

Messages == { <<"w", "h", "y">> }
QuestionCounts == { DefaultNumQuestions }

(***************************************************************************)
(* upload_pdf                                                              *)
(***************************************************************************)
Response(lm, status, detail, body, call) ==
    [lm |-> lm, status |-> status, detail |-> detail, body |-> body,
     call |-> call]

NoBody == <<>>
NoCall == [made |-> FALSE, kind |-> "none", grounded |-> FALSE,
           material |-> <<>>, n |-> 0, message |-> <<>>,
           raised |-> FALSE, text |-> <<>>]

\* text_content after the loop over pdf_reader.pages
RECURSIVE text_content(_)
text_content(pages) ==
    IF pages = <<>> THEN <<>>
    ELSE RConcat(RConcat(Head(pages), Run("\n", 1)), text_content(Tail(pages)))

material_id_of(filename) ==
    replace(replace(filename, DotPdf, <<>>), <<" ">>, <<"_">>)

Material(filename, content) ==
    [filename |-> filename, content |-> content, notes |-> None, quiz |-> None]

\* as store_material, written with dict.setdefault: an id already in the
\* store keeps its record
store_material_setdefault(lm, mid, filename, content) ==
    [id \in DOMAIN lm \cup {mid} |->
        IF id \in DOMAIN lm THEN lm[id] ELSE Material(filename, content)]

\* as store_material, written as an update of the record in place: the
\* notes and quiz of an earlier upload stay
store_material_merge(lm, mid, filename, content) ==
    [id \in DOMAIN lm \cup {mid} |->
        IF id # mid THEN lm[id]
        ELSE IF id \in DOMAIN lm
             THEN [lm[id] EXCEPT !.filename = filename, !.content = content]
             ELSE Material(filename, content)]

\* lecture_materials[material_id] = {...}
store_material(lm, mid, filename, content) ==
    [id \in DOMAIN lm \cup {mid} |->
        IF id = mid THEN Material(filename, content) ELSE lm[id]]

\* text_content and material_id_of over the inputs, evaluated once
text_of == [x \in Extractions |-> text_content(x.pages)]
id_of == [f \in UploadNames |-> material_id_of(f)]

\* the handler from `await file.read()` on; extraction is what the reader
\* and the page extractor make of the bytes read
upload_pdf_body(lm, filename, extraction) ==
    IF extraction.raised
        THEN Response(lm, 500, "Error processing PDF", NoBody, NoCall)
    ELSE LET text == text_of[extraction]
             mid == id_of[filename]
         IN  IF RIsBlank(text)
             \* the HTTPException(400) is raised inside the try block and
             \* caught by its `except Exception`
             THEN Response(lm, 500, "Error processing PDF", NoBody, NoCall)
             ELSE Response(store_material(lm, mid, filename, text), 200, "",
                           [status |-> "success",
                            message |-> "PDF uploaded successfully",
                            material_id |-> mid,
                            filename |-> filename],
                           NoCall)

(***************************************************************************)
(* generate_notes                                                          *)
(***************************************************************************)
\* a call of model.generate_content(prompt) and its outcome
Call(kind, grounded, material, n, message, outcome) ==
    [made |-> TRUE, kind |-> kind, grounded |-> grounded,
     material |-> material, n |-> n, message |-> message,
     raised |-> outcome.raised, text |-> outcome.text]

\* lecture_materials[material_id]["notes"] = notes
set_notes(lm, mid, notes) == [lm EXCEPT ![mid].notes = notes]

\* the try block, line 104-132
generate_notes_try(lm, mid, outcome) ==
    LET content == lm[mid].content
        call == Call("notes", TRUE, RTake(content, NotesBudget), 0, <<>>,
                     outcome)
    IN  IF outcome.raised
        THEN Response(lm, 500, "Error generating notes", NoBody, call)
        ELSE LET notes == PyStr(outcome.text)
             IN  Response(set_notes(lm, mid, notes), 200, "",
                          [status |-> "success", notes |-> notes], call)

\* as generate_notes_body, with the two checks in the other order
generate_notes_model_first(lm, mdl, mid, outcome) ==
    IF ~mdl
        THEN Response(lm, 500, "Gemini API not configured", NoBody, NoCall)
    ELSE IF mid \notin DOMAIN lm
        THEN Response(lm, 404, "Material not found", NoBody, NoCall)
    ELSE generate_notes_try(lm, mid, outcome)

generate_notes_body(lm, mdl, mid, outcome) ==
    IF mid \notin DOMAIN lm
        THEN Response(lm, 404, "Material not found", NoBody, NoCall)
    ELSE IF ~mdl
        THEN Response(lm, 500, "Gemini API not configured", NoBody, NoCall)
    ELSE generate_notes_try(lm, mid, outcome)

(***************************************************************************)
(* generate_quiz                                                           *)
(***************************************************************************)
\* quiz_text after the strip and the removal of markdown fences
clean_quiz_text(text) ==
    LET quiz_text == strip(text)
    IN  IF startswith(quiz_text, FenceJson)
            THEN strip(replace(replace(quiz_text, FenceJson, <<>>),
                               Fence, <<>>))
        ELSE IF startswith(quiz_text, Fence)
            THEN strip(replace(quiz_text, Fence, <<>>))
        ELSE quiz_text

\* json.loads with the JSONDecodeError fallback
parse_quiz(quiz_text) ==
    LET parsed == json_loads(quiz_text)
    IN  IF parsed.ok THEN parsed.val ELSE RawText(quiz_text)

\* as set_quiz, writing a whole new record that holds the quiz
set_quiz_whole_record(lm, mid, quiz) ==
    [lm EXCEPT ![mid] =
        [Material(@.filename, @.content) EXCEPT !.quiz = quiz]]

\* lecture_materials[request.material_id]["quiz"] = quiz
set_quiz(lm, mid, quiz) == [lm EXCEPT ![mid].quiz = quiz]

\* the post-processing of each reply, evaluated once
quiz_of == [o \in QuizReplies |-> parse_quiz(clean_quiz_text(o.text))]

\* the try block, line 143-194
generate_quiz_try(lm, request, outcome) ==
    LET mid == request.material_id
        content == lm[mid].content
        call == Call("quiz", TRUE, RTake(content, QuizBudget),
                     request.num_questions, <<>>, outcome)
    IN  IF outcome.raised
        THEN Response(lm, 500, "Error generating quiz", NoBody, call)
        ELSE LET quiz == quiz_of[outcome]
                 stored == set_quiz(lm, mid, quiz)
             IN  IF JsonCompliant(quiz)
                 THEN Response(stored, 200, "",
                               [status |-> "success", quiz |-> quiz], call)
                 \* JSONResponse raises ValueError inside the try block,
                 \* after the quiz was stored
                 ELSE Response(stored, 500, "Error generating quiz", NoBody,
                               call)

\* as generate_quiz_body, without the check of the model: the call on the
\* missing client raises inside the try block
generate_quiz_unchecked(lm, mdl, request, outcome) ==
    IF request.material_id \notin DOMAIN lm
        THEN Response(lm, 404, "Material not found", NoBody, NoCall)
    ELSE IF ~mdl
        THEN Response(lm, 500, "Error generating quiz", NoBody, NoCall)
    ELSE generate_quiz_try(lm, request, outcome)

generate_quiz_body(lm, mdl, request, outcome) ==
    IF request.material_id \notin DOMAIN lm
        THEN Response(lm, 404, "Material not found", NoBody, NoCall)
    ELSE IF ~mdl
        THEN Response(lm, 500, "Gemini API not configured", NoBody, NoCall)
    ELSE generate_quiz_try(lm, request, outcome)

(***************************************************************************)
(* chat_with_tutor                                                         *)
(***************************************************************************)
\* Optional[str]: <<>> is None, <<id>> is a supplied id
NoMaterialId == <<>>
Supplied(mid) == <<mid>>

\* `request.material_id and request.material_id in lecture_materials`
chat_uses_material(lm, material_id) ==
    /\ material_id # NoMaterialId
    /\ material_id[1] # <<>>
    /\ material_id[1] \in DOMAIN lm

chat_with_tutor_body(lm, mdl, request, outcome) ==
    IF ~mdl
        THEN Response(lm, 500, "Gemini API not configured", NoBody, NoCall)
    ELSE LET call ==
                 IF chat_uses_material(lm, request.material_id)
                 THEN Call("chat", TRUE,
                           RTake(lm[request.material_id[1]].content, ChatBudget),
                           0, request.message, outcome)
                 ELSE Call("chat", FALSE, <<>>, 0, request.message, outcome)
         IN  IF outcome.raised
             THEN Response(lm, 500, "Error chatting with tutor", NoBody, call)
             ELSE Response(lm, 200, "",
                           [status |-> "success",
                            response |-> PyStr(outcome.text)],
                           call)

(***************************************************************************)
(* list_materials, get_material, read_root                                 *)
(***************************************************************************)
\* the summaries, as a set: the order of the listing is not modelled
list_materials_body(lm) ==
    Response(lm, 200, "",
             [materials |->
                 { [material_id |-> id,
                    filename |-> lm[id].filename,
                    has_notes |-> lm[id].notes # None,
                    has_quiz |-> lm[id].quiz # None] : id \in DOMAIN lm }],
             NoCall)

get_material_body(lm, mid) ==
    IF mid \notin DOMAIN lm
        THEN Response(lm, 404, "Material not found", NoBody, NoCall)
    ELSE LET material == lm[mid]
         IN  IF JsonCompliant(material.notes) /\ JsonCompliant(material.quiz)
             THEN Response(lm, 200, "",
                           [material_id |-> mid,
                            filename |-> material.filename,
                            content_preview |->
                                RConcat(RTake(material.content, PreviewLen),
                                        Run(".", 3)),
                            notes |-> material.notes,
                            quiz |-> material.quiz],
                           NoCall)
             \* JSONResponse raises outside any try block
             ELSE Response(lm, 500, "Internal Server Error", NoBody, NoCall)

read_root_body(lm) ==
    Response(lm, 200, "", [message |-> "Welcome to AI Study Buddy API"], NoCall)

(***************************************************************************)
(* State.                                                                  *)
(***************************************************************************)
VARIABLES
    model,              \* TRUE iff GEMINI_API_KEY was set at start-up
    lecture_materials,  \* material id -> record
    reading,            \* file name -> upload handlers awaiting file.read()
    ev,                 \* what the latest handler step did and answered
    audit,              \* per id, where the stored notes and quiz came from
    derived             \* a file name and the material id derived from it

vars == <<model, lecture_materials, reading, ev, audit, derived>>

PdfNames == { f \in UploadNames : endswith(f, DotPdf) }
UnknownId == <<"z">>
MaterialIds == { id_of[f] : f \in PdfNames } \cup { UnknownId }

Event(op, arg, r) ==
    [op |-> op, arg |-> arg, status |-> r.status, detail |-> r.detail,
     body |-> r.body, call |-> r.call]

Unset == <<>>
Known(x) == <<x>>

\* audit[id].notes_from / quiz_from: the excerpt of the content that was in
\* the prompt whose reply was stored last as notes / quiz of id, since the
\* latest upload to id
NoAudit == [notes_from |-> Unset, quiz_from |-> Unset]

RECURSIVE SumOver(_, _)
SumOver(f, S) ==
    IF S = {} THEN 0
    ELSE LET x == CHOOSE y \in S : TRUE
         IN  f[x] + SumOver(f, S \ {x})

InFlight == SumOver(reading, PdfNames)

Underived(filename) == [filename |-> filename, id |-> <<>>, done |-> FALSE]

Started ==
    /\ lecture_materials = <<>>
    /\ reading = [f \in PdfNames |-> 0]
    /\ ev = Event("start", <<>>, Response(<<>>, 0, "", NoBody, NoCall))
    /\ audit = [id \in MaterialIds |-> NoAudit]

Init ==
    /\ model \in BOOLEAN
    /\ Started
    /\ derived = Underived(<<>>)

(***************************************************************************)
(* Handlers.  generate_notes, generate_quiz, chat_with_tutor,              *)
(* list_materials and get_material contain no await and run in one step;   *)
(* upload_pdf suspends once, in `await file.read()`.                       *)
(***************************************************************************)
read_root ==
    /\ ev' = Event("root", <<>>, read_root_body(lecture_materials))
    /\ UNCHANGED <<model, lecture_materials, reading, audit, derived>>

\* line 58-59: the file name check, before the try block
upload_pdf_reject(filename) ==
    /\ ~endswith(filename, DotPdf)
    /\ ev' = Event("upload", <<filename>>,
                   Response(lecture_materials, 400,
                            "Only PDF files are allowed", NoBody, NoCall))
    /\ UNCHANGED <<model, lecture_materials, reading, audit, derived>>

\* line 58-63: the handler up to its suspension in file.read()
upload_pdf_await(filename) ==
    /\ endswith(filename, DotPdf)
    /\ InFlight < MaxInFlight
    /\ reading' = [reading EXCEPT ![filename] = @ + 1]
    /\ ev' = Event("upload_await", <<filename>>,
                   Response(lecture_materials, 0, "", NoBody, NoCall))
    /\ UNCHANGED <<model, lecture_materials, audit, derived>>

\* line 64-93: the handler from the resumption to its answer
upload_pdf(filename, extraction) ==
    /\ reading[filename] > 0
    /\ LET r == upload_pdf_body(lecture_materials, filename, extraction)
       IN  /\ lecture_materials' = r.lm
           /\ ev' = Event("upload", <<filename, extraction>>, r)
           /\ audit' = IF r.status = 200
                       THEN [audit EXCEPT ![r.body.material_id] = NoAudit]
                       ELSE audit
    /\ reading' = [reading EXCEPT ![filename] = @ - 1]
    /\ UNCHANGED <<model, derived>>

generate_notes(mid, outcome) ==
    /\ LET r == generate_notes_body(lecture_materials, model, mid, outcome)
       IN  /\ lecture_materials' = r.lm
           /\ ev' = Event("notes", mid, r)
           /\ audit' = IF r.status = 200
                       THEN [audit EXCEPT
                               ![mid].notes_from = Known(r.call.material)]
                       ELSE audit
    /\ UNCHANGED <<model, reading, derived>>

generate_quiz(request, outcome) ==
    /\ LET r == generate_quiz_body(lecture_materials, model, request, outcome)
           mid == request.material_id
       IN  /\ lecture_materials' = r.lm
           /\ ev' = Event("quiz", request, r)
           \* the quiz is stored whenever the client returned a text
           /\ audit' = IF r.call.made /\ ~r.call.raised
                       THEN [audit EXCEPT
                               ![mid].quiz_from = Known(r.call.material)]
                       ELSE audit
    /\ UNCHANGED <<model, reading, derived>>

chat_with_tutor(request, outcome) ==
    /\ LET r == chat_with_tutor_body(lecture_materials, model, request, outcome)
       IN  /\ lecture_materials' = r.lm
           /\ ev' = Event("chat", request, r)
    /\ UNCHANGED <<model, reading, audit, derived>>

list_materials ==
    /\ LET r == list_materials_body(lecture_materials)
       IN  /\ lecture_materials' = r.lm
           /\ ev' = Event("list", <<>>, r)
    /\ UNCHANGED <<model, reading, audit, derived>>

get_material(mid) ==
    /\ LET r == get_material_body(lecture_materials, mid)
       IN  /\ lecture_materials' = r.lm
           /\ ev' = Event("get", mid, r)
    /\ UNCHANGED <<model, reading, audit, derived>>

QuizRequests ==
    [material_id : MaterialIds, num_questions : QuestionCounts]

ChatRequests ==
    [message : Messages,
     material_id : { NoMaterialId } \cup { Supplied(id) : id \in MaterialIds }]

Next ==
    \/ read_root
    \/ \E f \in UploadNames : upload_pdf_reject(f)
    \/ \E f \in UploadNames : upload_pdf_await(f)
    \/ \E f \in PdfNames, x \in Extractions : upload_pdf(f, x)
    \/ \E mid \in MaterialIds, o \in NotesReplies : generate_notes(mid, o)
    \/ \E q \in QuizRequests, o \in QuizReplies : generate_quiz(q, o)
    \/ \E c \in ChatRequests, o \in ChatReplies : chat_with_tutor(c, o)
    \/ list_materials
    \/ \E mid \in MaterialIds : get_material(mid)

Spec == Init /\ [][Next]_vars

(***************************************************************************)
(* The derivation of the material id (line 75) on its own, over the        *)
(* generated file names.                                                   *)
(***************************************************************************)
InitId ==
    /\ model \in BOOLEAN
    /\ Started
    /\ derived \in { Underived(n) : n \in GeneratedNames }

derive_material_id ==
    /\ ~derived.done
    /\ derived' = [derived EXCEPT !.id = material_id_of(derived.filename),
                                  !.done = TRUE]
    /\ UNCHANGED <<model, lecture_materials, reading, ev, audit>>

NextId == derive_material_id

SpecId == InitId /\ [][NextId]_vars

(***************************************************************************)
(* Properties.  ev describes the handler step that led to the current      *)
(* state; in an action formula ev' describes the step itself and the       *)
(* unprimed variables the state it was taken in.                           *)
(***************************************************************************)
NotConfigured == "Gemini API not configured"

\* the material id a generate request names
RequestedId(e) == IF e.op = "quiz" THEN e.arg.material_id ELSE e.arg

\* e is the answer of an upload whose file was read and whose pages were
\* extracted without an exception
Extracting(e) == e.op = "upload" /\ Len(e.arg) = 2 /\ ~e.arg[2].raised

\* C1: an upload of a .pdf whose extracted text is empty or whitespace-only
\* answers 400 and leaves the store as it was.
C1_BlankUploadIs400 ==
    [][ ( /\ Extracting(ev')
          /\ endswith(ev'.arg[1], DotPdf)
          /\ RIsBlank(text_content(ev'.arg[2].pages)) )
        => ( /\ ev'.status = 400
             /\ lecture_materials' = lecture_materials ) ]_vars

\* C2, as claimed: without a credential every generate-notes, generate-quiz
\* and chat request answers 500 with the configuration message and makes no
\* client call, whatever the material id and the store.
C2_Original ==
    (~model /\ ev.op \in {"notes", "quiz", "chat"})
    => ( /\ ev.status = 500
         /\ ev.detail = NotConfigured
         /\ ~ev.call.made )

\* upload, list and get answer from the request and the store alone
StoreRequestsAnswer ==
    /\ ( Extracting(ev) /\ ~RIsBlank(text_content(ev.arg[2].pages)) )
       => ( /\ ev.status = 200
            /\ ev.body.filename = ev.arg[1]
            /\ ev.body.material_id \in DOMAIN lecture_materials
            /\ lecture_materials[ev.body.material_id]
                 = [filename |-> ev.arg[1],
                    content |-> text_content(ev.arg[2].pages),
                    notes |-> None, quiz |-> None] )
    /\ ev.op = "list"
       => ( /\ ev.status = 200
            /\ { m.material_id : m \in ev.body.materials }
                 = DOMAIN lecture_materials
            /\ \A m \in ev.body.materials :
                 LET rec == lecture_materials[m.material_id]
                 IN  /\ m.filename = rec.filename
                     /\ m.has_notes = (rec.notes # None)
                     /\ m.has_quiz = (rec.quiz # None) )
    /\ ev.op = "get"
       => IF ev.arg \notin DOMAIN lecture_materials
              THEN ev.status = 404
          ELSE LET rec == lecture_materials[ev.arg]
               IN  JsonCompliant(rec.quiz)
                   => ( /\ ev.status = 200
                        /\ ev.body.filename = rec.filename
                        /\ ev.body.notes = rec.notes
                        /\ ev.body.quiz = rec.quiz )

\* C2, amended: without a credential, chat always, and generate-notes and
\* generate-quiz on an id that is in the store, answer 500 with the
\* configuration message; generate-notes and generate-quiz on an id that is
\* not in the store answer 404; none of them calls the client.  With or
\* without a credential, upload, list and get answer from the request and
\* the store alone.
C2_NotConfigured ==
    /\ (~model /\ ev.op = "chat")
       => (ev.status = 500 /\ ev.detail = NotConfigured /\ ~ev.call.made)
    /\ (~model /\ ev.op \in {"notes", "quiz"})
       => ( /\ ~ev.call.made
            /\ IF RequestedId(ev) \in DOMAIN lecture_materials
               THEN ev.status = 500 /\ ev.detail = NotConfigured
               ELSE ev.status = 404 )
    /\ StoreRequestsAnswer

\* C2 happens: a quiz was asked for a stored material without a credential
C2_Witness ==
    /\ ~model
    /\ ev.op = "quiz"
    /\ RequestedId(ev) \in DOMAIN lecture_materials
    /\ ev.status = 500

\* C3: generate-notes and generate-quiz on an id that is not in the store
\* answer 404, make no client call and leave the store as it was, with or
\* without a credential.
C3_UnknownIdIs404 ==
    [][ ( /\ ev'.op \in {"notes", "quiz"}
          /\ RequestedId(ev') \notin DOMAIN lecture_materials )
        => ( /\ ev'.status = 404
             /\ ~ev'.call.made
             /\ lecture_materials' = lecture_materials ) ]_vars

\* C3 happens: notes were asked for an unknown id of a non-empty store
\* without a credential
C3_Witness ==
    /\ ~model
    /\ ev.op = "notes"
    /\ ev.arg \notin DOMAIN lecture_materials
    /\ DOMAIN lecture_materials # {}
    /\ ev.status = 404

\* C4: a generate-quiz on a stored material whose client call returned a
\* text answers success, and stores and returns the parsed value of the
\* fence-stripped text, or {raw_text: fence-stripped text} if it does not
\* parse.
C4_QuizAlwaysSucceeds ==
    (ev.op = "quiz" /\ ev.call.made /\ ~ev.call.raised)
    => LET cleaned == clean_quiz_text(ev.call.text)
           parsed == json_loads(cleaned)
           expected == IF parsed.ok THEN parsed.val ELSE RawText(cleaned)
       IN  /\ ev.status = 200
           /\ ev.body.quiz = expected
           /\ lecture_materials[ev.arg.material_id].quiz = expected

\* C5: a successful upload leaves under its id exactly the uploaded file
\* name and extracted content with notes and quiz unset, whatever was there
\* before, and leaves every other record as it was.
C5_UploadReplaces ==
    [][ (ev'.op = "upload" /\ ev'.status = 200)
        => LET mid == ev'.body.material_id
           IN  /\ DOMAIN lecture_materials' = DOMAIN lecture_materials \cup {mid}
               /\ lecture_materials'[mid]
                    = [filename |-> ev'.arg[1],
                       content |-> text_content(ev'.arg[2].pages),
                       notes |-> None, quiz |-> None]
               /\ \A id \in DOMAIN lecture_materials \ {mid} :
                    lecture_materials'[id] = lecture_materials[id] ]_vars

\* C5 happens: an upload succeeded beside another record that holds notes
\* and a quiz
C5_Witness ==
    /\ ev.op = "upload"
    /\ ev.status = 200
    /\ \E id \in DOMAIN lecture_materials \ {ev.body.material_id} :
         /\ lecture_materials[id].notes # None
         /\ lecture_materials[id].quiz # None

\* the file name without its trailing ".pdf", every space an underscore
TrailingSuffixRemoved(filename) ==
    replace(SubSeq(filename, 1, Len(filename) - Len(DotPdf)), <<" ">>, <<"_">>)

\* C6: the id derived from a file name that ends in ".pdf" is the name
\* without that trailing suffix only, with every space an underscore.
C6_OnlyTrailingSuffix ==
    (derived.done /\ endswith(derived.filename, DotPdf))
    => derived.id = TrailingSuffixRemoved(derived.filename)

\* C7: only upload, generate-notes and generate-quiz change the store; a
\* successful generate-notes changes the notes of its record and nothing
\* else, a successful generate-quiz the quiz of its record and nothing else;
\* chat, list and get change nothing; no id leaves the store; the content of
\* a record changes only by an upload to its id.
C7_Frame ==
    [][ /\ lecture_materials' # lecture_materials
           => ev'.op \in {"upload", "notes", "quiz"}
        /\ (ev'.op = "notes" /\ ev'.status = 200)
           => lecture_materials'
                = [lecture_materials EXCEPT ![ev'.arg].notes = ev'.body.notes]
        /\ (ev'.op = "quiz" /\ ev'.status = 200)
           => lecture_materials'
                = [lecture_materials EXCEPT
                     ![ev'.arg.material_id].quiz = ev'.body.quiz]
        /\ ev'.op \in {"chat", "list", "get"}
           => lecture_materials' = lecture_materials
        /\ DOMAIN lecture_materials \subseteq DOMAIN lecture_materials'
        /\ \A id \in DOMAIN lecture_materials :
             lecture_materials'[id].content # lecture_materials[id].content
             => ( /\ ev'.op = "upload"
                  /\ ev'.status = 200
                  /\ ev'.body.material_id = id ) ]_vars

\* C7 happens: a quiz was generated for a record that holds notes, beside
\* another record
C7_Witness ==
    /\ ev.op = "quiz"
    /\ ev.status = 200
    /\ lecture_materials[ev.arg.material_id].notes # None
    /\ Cardinality(DOMAIN lecture_materials) = 2

\* C8: a chat with a credential never answers 404; if the supplied id is a
\* key of the store (the empty id of ".pdf" too) the prompt holds the first
\* 3000 characters of that content, otherwise it is the generic prompt.
C8_ChatContext ==
    (model /\ ev.op = "chat")
    => LET mid == ev.arg.material_id
       IN  /\ ev.status # 404
           /\ ev.call.made
           /\ IF mid # NoMaterialId /\ mid[1] \in DOMAIN lecture_materials
              THEN /\ ev.call.grounded
                   /\ ev.call.material
                        = RTake(lecture_materials[mid[1]].content, ChatBudget)
              ELSE /\ ~ev.call.grounded
                   /\ ev.call.material = <<>>

\* C9: in every reachable state, notes and a quiz held by a record were
\* generated from the first 4000 characters of the content the record holds
\* now.
C9_NotesFromCurrentContent ==
    \A id \in DOMAIN lecture_materials :
        LET rec == lecture_materials[id]
        IN  /\ rec.notes # None
               => audit[id].notes_from = Known(RTake(rec.content, NotesBudget))
            /\ rec.quiz # None
               => audit[id].quiz_from = Known(RTake(rec.content, QuizBudget))

\* C9 happens: a record holds notes and a quiz while an upload to its id is
\* suspended in file.read()
C9_Witness ==
    \E f \in PdfNames :
        /\ reading[f] > 0
        /\ id_of[f] \in DOMAIN lecture_materials
        /\ lecture_materials[id_of[f]].notes # None
        /\ lecture_materials[id_of[f]].quiz # None
        /\ RLen(lecture_materials[id_of[f]].content) > NotesBudget

\* C10: when a generate-notes (generate-quiz) request has answered success,
\* the listing reports has_notes (has_quiz) for its id and get returns the
\* value the request returned; stated for the state the answer is given in,
\* the first of the states the claim covers.
C10_GeneratedIsListed ==
    (ev.op \in {"notes", "quiz"} /\ ev.status = 200)
    => LET mid == RequestedId(ev)
           listed == list_materials_body(lecture_materials).body.materials
           got == get_material_body(lecture_materials, mid)
       IN  /\ \E m \in listed :
                /\ m.material_id = mid
                /\ IF ev.op = "notes" THEN m.has_notes ELSE m.has_quiz
           /\ got.status = 200
           /\ IF ev.op = "notes"
              THEN got.body.notes = ev.body.notes
              ELSE got.body.quiz = ev.body.quiz

====
